---- MODULE Spec2Model ----
(***************************************************************************)
(* State-machine model of the refresh scheduler (core/scheduler.ts), of    *)
(* the history store (core/historyStorage.ts), of the adapter registry and *)
(* factory (adapters/registry.ts, adapters/factory.ts) and of a refresh    *)
(* cycle of the usage manager with the adapters' fetchUsage(), of          *)
(* ai-usage-monitor.                                                       *)
(*                                                                         *)
(* The JavaScript event loop runs one handler at a time, so every action   *)
(* is the code that runs between two awaits: a public method call, the     *)
(* firing of a timer, the settling of an awaited callback promise, a       *)
(* configuration-change event.                                             *)
(***************************************************************************)
EXTENDS Integers, Sequences, FiniteSets

VARIABLES
    refreshInterval,  \* the 'ai-usage-monitor.refreshInterval' setting (seconds)
    timer,            \* RefreshScheduler.timer: NULL or the last handle stored
    callback,         \* RefreshScheduler.callback: NULL or the registered callback
    armed,            \* timers pending in the event loop: records [h, delay]
    ticking,          \* handles of the timer handlers awaiting their callback
    manual,           \* trigger() calls awaiting their callback
    lastEvent,        \* what the last step did (observation, never read by the code)
    clock,            \* Date.now()
    maxHistoryDays,   \* HistoryStorage.maxHistoryDays
    context,          \* TRUE when global.extensionContext is set
    data,             \* HistoryStorage.data: account -> sequence of points
    stored,           \* globalState value under 'ai-usage-monitor.history'
    histEvent,        \* what the last history step did: the operation, the account,
                      \* the points it dropped, what it returned (observation)
    adapters,         \* AdapterRegistry.adapters: the Map's entries in iteration order
    registrations,    \* register() calls since the last clear() (observation)
    settings,         \* what isConfigured()/isEnabled() read for each instance id
    accounts,         \* the 'ai-usage-monitor.accounts' setting: account records
    platformTypes,    \* PlatformTypeRegistry.types: the registered type ids
    created,          \* what the last createAdaptersFromConfig() call did, and for whom
    refresh,          \* the refreshAll() call in flight, and what it delivered
    fetching,         \* the fetchUsage() call in flight
    series,           \* the usage data points handed to the prediction
    instant,          \* the time of the prediction, in half hours
    prediction,       \* the PredictionResult last computed, if any
    cycles,           \* refreshAll() executions in progress, by what called them
    retentionSetting, \* the 'ai-usage-monitor.prediction.maxHistoryDays' setting
    storeThrows,      \* TRUE while globalState.get() and update() throw
    appending         \* the position of each caller inside addDataPoint()

schedVars == <<refreshInterval, timer, callback, armed, ticking, manual, lastEvent>>
storeEnvVars == <<retentionSetting, storeThrows>>
callVars == <<appending>>
histVars == <<clock, maxHistoryDays, context, data, stored, histEvent, storeEnvVars, callVars>>
registryVars == <<adapters, registrations, settings>>
factoryVars == <<accounts, platformTypes, created>>
refreshVars == <<refresh, fetching>>
predictionVars == <<series, instant, prediction>>
managerVars == <<cycles>>
vars == <<refreshInterval, timer, callback, armed, ticking, manual, lastEvent,
          clock, maxHistoryDays, context, data, stored, histEvent,
          adapters, registrations, settings, accounts, platformTypes, created,
          refresh, fetching, series, instant, prediction, cycles,
          retentionSetting, storeThrows, appending>>
\* What the scheduler never touches, and what the history store never writes.
notSchedVars == <<histVars, registryVars, factoryVars, refreshVars, predictionVars, managerVars>>
notHistVars == <<schedVars, registryVars, factoryVars, refreshVars, predictionVars, managerVars,
                 storeEnvVars, callVars>>

(***************************************************************************)
(* Bounds of the model.                                                    *)
(***************************************************************************)
MaxHandles == 3      \* timer handles alive at once (pending, awaited or stored)
MaxInterval == 2     \* largest refreshInterval value tried (seconds)
MaxManual == 1       \* trigger() calls awaiting their callback at once

NULL == 0
Handles == 1..MaxHandles
Intervals == (-1)..MaxInterval
Callbacks == 1..2    \* two distinct callback functions
\* How a callback behaves when called: it returns a promise that settles later,
\* it returns synchronously, or it throws synchronously.
CallModes == {"async", "sync", "throw"}
\* How a pending callback promise settles.
Settlements == {"ok", "reject"}

\* globalState.get() or update() is reached and throws.
MaxCallers == 2
\* Refresh cycles and commands that may call addDataPoint().
Callers == 1..MaxCallers
\* A caller that is not inside addDataPoint().
NotCalling == [pc |-> "idle", id |-> "", point |-> <<>>, history |-> <<>>]
NoCalls == [c \in Callers |-> NotCalling]

StoreThrown == context /\ storeThrows

\* Variant of SaveCompletion: saveToStorage() without its try/catch, so what
\* globalState.update() throws leaves the mutating call.
SaveCompletionUncaught(thrown) == IF thrown THEN "raised" ELSE "returned"

\* try { ... context.globalState.update(...) } catch (error) { logger.error }:
\* how a mutating call ends, whether or not the write has thrown.
SaveCompletion(thrown) == IF thrown THEN "returned" ELSE "returned"

\* loadFromStorage() is an async function with a try/catch, called without
\* await: the constructor returns whether or not the read has thrown.
LoadCompletion(thrown) == IF thrown THEN "returned" ELSE "returned"

\* How a call of the history store ends.
Completion(op) ==
    IF op \in {"addDataPoint", "clearHistory", "clearAll", "dispose"}
    THEN SaveCompletion(StoreThrown)
    ELSE IF op \in {"init", "construct"} THEN LoadCompletion(StoreThrown)
    ELSE "returned"

\* What a step of the history store did.
HistEvent(op, id, dropped, returned) ==
    [op |-> op, id |-> id, dropped |-> dropped, returned |-> returned,
     completion |-> Completion(op)]

\* What a step did: the operation, the callbacks it invoked (in order), the
\* outcome of the callback observed in the step, how trigger()'s promise
\* settled, whether scheduleNext() ran, whether stop() found the scheduler Idle.
Event(op, invoked, outcome, result, scheduled, idle) ==
    [op |-> op, invoked |-> invoked, outcome |-> outcome, result |-> result,
     scheduled |-> scheduled, idle |-> idle]

(***************************************************************************)
(* RefreshScheduler                                                        *)
(***************************************************************************)
HandlesOf(a) == {x.h : x \in a}

\* clearTimeout(t): a pending timer with that handle is removed; for a fired
\* or already cleared handle it does nothing.
ClearTimeout(t, a) == {x \in a : x.h # t}

\* Variant of StopArmed: the pending timer is forgotten without clearTimeout().
StopArmedNoClear(t, a) == a

\* if (this.timer) { clearTimeout(this.timer); this.timer = null }
StopArmed(t, a) == IF t # NULL THEN ClearTimeout(t, a) ELSE a

\* Variant of StopCallback: the callback is cleared only on the path that
\* finds no timer (this.callback = null put in an else branch).
StopCallbackElseOnly(t, cb) == IF t # NULL THEN cb ELSE NULL

\* this.callback = null, on every path of stop()
StopCallback(t, cb) == NULL

\* setTimeout returns a new Timeout object: the least handle not in `used`,
\* the handles that still denote another Timeout object.
FreshHandle(used) ==
    CHOOSE h \in Handles \ used : \A g \in Handles \ used : h <= g

\* The field this.refreshInterval: set at construction, never assigned again.
InitialInterval == 300

\* Variant of GetRefreshInterval: returns the field this.refreshInterval
\* instead of reading the configuration.
GetRefreshIntervalField(setting) == InitialInterval

\* getRefreshInterval(): config.get('refreshInterval', 300), with the setting
\* holding a value.
GetRefreshInterval(setting) == setting

\* Variant of Disabled: the early return tests interval < 0, so 0 arms a timer.
DisabledBelowZero(interval) == interval < 0

\* scheduleNext's early return: an interval <= 0 arms nothing.
Disabled(interval) == interval <= 0

\* scheduleNext(): the fields this.timer and the pending timers it leaves.
ScheduleNext(interval, t, a, used) ==
    IF Disabled(interval)
    THEN [timer |-> t, armed |-> a]
    ELSE LET h == FreshHandle(used)
         IN [timer |-> h, armed |-> a \cup {[h |-> h, delay |-> interval * 1000]}]

\* The model takes a step that arms a timer only while a handle is left.
CanSchedule(interval, used) == Disabled(interval) \/ Handles \ used # {}

\* The handles that denote a live Timeout object.
Used == HandlesOf(armed) \cup ticking \cup {timer}

\* Variant of TickContinues: no try/catch around the awaited callback, so a
\* failure ends the handler before scheduleNext().
TickContinuesUncaught(outcome) == outcome = "ok"

\* try { await this.callback() } catch { log } in the timer handler: whatever
\* the outcome of the callback, the handler goes on to scheduleNext().
TickContinues(outcome) == outcome \in {"ok", "throw", "reject"}

\* Variant of TriggerSettles: no try/catch in trigger(), so a failure of the
\* callback rejects the promise trigger() returned.
TriggerSettlesUncaught(outcome) == IF outcome = "ok" THEN "resolved" ELSE "rejected"

\* try { await this.callback() } catch { log } in trigger(): how the promise
\* returned by trigger() settles for each outcome of the callback.
TriggerSettles(outcome) == IF outcome = "ok" THEN "resolved" ELSE "resolved"

\* Variant of TriggerInvokes: the callback is called a second time.
TriggerInvokesTwice(cb) == IF cb # NULL THEN <<cb, cb>> ELSE <<>>

\* if (this.callback) { await this.callback() }: the calls trigger() makes.
TriggerInvokes(cb) == IF cb # NULL THEN <<cb>> ELSE <<>>

\* if (this.callback) { await this.callback() }: the calls a timer handler makes.
TickInvokes(cb) == IF cb # NULL THEN <<cb>> ELSE <<>>

\* The outcome of a call that does not return a pending promise.
OutcomeOf(mode) == IF mode = "throw" THEN "throw" ELSE "ok"

\* start(callback): stop(); this.callback = callback; scheduleNext()
Start(cb) ==
    LET a1 == StopArmed(timer, armed)
        nxt == ScheduleNext(GetRefreshInterval(refreshInterval), NULL, a1, Used)
    IN /\ CanSchedule(GetRefreshInterval(refreshInterval), Used)
       /\ timer' = nxt.timer
       /\ armed' = nxt.armed
       /\ callback' = cb
       /\ lastEvent' = Event("start", <<>>, "none", "none", TRUE, FALSE)
       /\ UNCHANGED <<refreshInterval, ticking, manual>>
       /\ UNCHANGED notSchedVars

\* stop()
Stop ==
    /\ armed' = StopArmed(timer, armed)
    /\ timer' = NULL
    /\ callback' = StopCallback(timer, callback)
    /\ lastEvent' = Event("stop", <<>>, "none", "none", FALSE,
                          timer = NULL /\ callback = NULL)
    /\ UNCHANGED <<refreshInterval, ticking, manual>>
    /\ UNCHANGED notSchedVars

\* The setTimeout handler runs. With no callback it reschedules at once; with
\* one it calls it, and either awaits the returned promise (the handler is
\* suspended until TickDone) or, when the call returned or threw
\* synchronously, goes on in the same turn of the event loop.
TimerFire(x, mode) ==
    LET a1 == armed \ {x}
        goesOn == callback = NULL \/ TickContinues(OutcomeOf(mode))
        nxt == ScheduleNext(GetRefreshInterval(refreshInterval), timer, a1, Used)
    IN /\ x \in armed
       /\ IF callback # NULL /\ mode = "async"
          THEN /\ ticking' = ticking \cup {x.h}
               /\ armed' = a1
               /\ timer' = timer
               /\ lastEvent' = Event("tick", TickInvokes(callback), "none", "none",
                                     FALSE, FALSE)
          ELSE /\ goesOn => CanSchedule(GetRefreshInterval(refreshInterval), Used)
               /\ ticking' = ticking
               /\ armed' = IF goesOn THEN nxt.armed ELSE a1
               /\ timer' = IF goesOn THEN nxt.timer ELSE timer
               /\ lastEvent' = Event("tick", TickInvokes(callback),
                                     IF callback = NULL THEN "none" ELSE OutcomeOf(mode),
                                     "none", goesOn, FALSE)
       /\ UNCHANGED <<refreshInterval, callback, manual>>
       /\ UNCHANGED notSchedVars

\* The promise awaited by a timer handler settles: the handler resumes after
\* the await and calls scheduleNext().
TickDone(h, outcome) ==
    LET nxt == ScheduleNext(GetRefreshInterval(refreshInterval), timer, armed, Used)
    IN /\ h \in ticking
       /\ TickContinues(outcome) => CanSchedule(GetRefreshInterval(refreshInterval), Used)
       /\ ticking' = ticking \ {h}
       /\ armed' = IF TickContinues(outcome) THEN nxt.armed ELSE armed
       /\ timer' = IF TickContinues(outcome) THEN nxt.timer ELSE timer
       /\ lastEvent' = Event("tickDone", <<>>, outcome, "none",
                             TickContinues(outcome), FALSE)
       /\ UNCHANGED <<refreshInterval, callback, manual>>
       /\ UNCHANGED notSchedVars

\* trigger(): calls the registered callback, if any, and awaits it.
Trigger(mode) ==
    /\ IF callback # NULL /\ mode = "async"
       THEN /\ manual < MaxManual
            /\ manual' = manual + 1
            /\ lastEvent' = Event("trigger", TriggerInvokes(callback), "none",
                                  "pending", FALSE, FALSE)
       ELSE /\ manual' = manual
            /\ lastEvent' =
                 IF callback = NULL
                 THEN Event("trigger", TriggerInvokes(callback), "none", "resolved",
                            FALSE, FALSE)
                 ELSE Event("trigger", TriggerInvokes(callback), OutcomeOf(mode),
                            TriggerSettles(OutcomeOf(mode)), FALSE, FALSE)
    /\ UNCHANGED <<refreshInterval, timer, callback, armed, ticking>>
    /\ UNCHANGED notSchedVars

\* The promise awaited by a trigger() call settles.
TriggerDone(outcome) ==
    /\ manual > 0
    /\ manual' = manual - 1
    /\ lastEvent' = Event("triggerDone", <<>>, outcome, TriggerSettles(outcome),
                          FALSE, FALSE)
    /\ UNCHANGED <<refreshInterval, timer, callback, armed, ticking>>
    /\ UNCHANGED notSchedVars

\* The refreshInterval setting changes: the listener installed by
\* watchConfiguration() calls start(this.callback) when a callback is registered.
ConfigChange(v) ==
    LET a1 == StopArmed(timer, armed)
        nxt == ScheduleNext(GetRefreshInterval(v), NULL, a1, Used)
        restart == callback # NULL
    IN /\ refreshInterval' = v
       /\ restart => CanSchedule(GetRefreshInterval(v), Used)
       /\ timer' = IF restart THEN nxt.timer ELSE timer
       /\ armed' = IF restart THEN nxt.armed ELSE armed
       /\ lastEvent' = Event("config", <<>>, "none", "none", restart, FALSE)
       /\ UNCHANGED <<callback, ticking, manual>>
       /\ UNCHANGED notSchedVars

(***************************************************************************)
(* The adapter registry, the adapter factory and the refresh cycle as they  *)
(* are constructed: what the scheduler and the history store never touch.   *)
(***************************************************************************)
InstanceIds == {"x", "y", "z"}

\* A FetchResult, by the fields it carries.
FetchResult(configured, usage, error) ==
    [configured |-> configured, usage |-> usage, error |-> error]

RegistryIdle ==
    /\ adapters = <<>>
    /\ registrations = 0
    /\ settings = [id \in InstanceIds |-> [configured |-> FALSE, enabled |-> FALSE]]

FactoryIdle ==
    /\ accounts = <<>>
    /\ platformTypes = {}
    /\ created = [call |-> 0, raised |-> FALSE, adapters |-> <<>>, registered |-> FALSE]

RefreshIdle ==
    /\ refresh = [state |-> "idle", snapshot |-> <<>>, pos |-> 1, log |-> <<>>]
    /\ fetching = [phase |-> "idle", id |-> "", calls |-> 0]

\* What starts a refresh cycle: initialize(), a timer handler of the scheduler,
\* the command 'ai-usage-monitor.refresh'.
Origins == {"initial", "tick", "command"}

\* No refreshAll() is in progress.
ManagerIdle == cycles = [origin \in Origins |-> 0]

\* No prediction has been asked for.
NoPrediction == [computed |-> FALSE]

PredictionIdle ==
    /\ series = <<>>
    /\ instant = 0
    /\ prediction = NoPrediction

AdaptersIdle ==
    /\ RegistryIdle
    /\ FactoryIdle
    /\ RefreshIdle
    /\ PredictionIdle
    /\ ManagerIdle

\* The history store is not used by the scheduler.
HistoryIdle ==
    /\ clock = 0
    /\ maxHistoryDays = 0
    /\ context = FALSE
    /\ data = <<>>
    /\ stored = <<>>
    /\ retentionSetting = maxHistoryDays
    /\ storeThrows = FALSE
    /\ appending = NoCalls
    /\ histEvent = HistEvent("init", "", 0, <<>>)

\* new RefreshScheduler(): no timer, no callback, the listener subscribed.
\* The model covers the scheduler up to dispose(), which is stop() followed by
\* the removal of the listener.
SchedulerInit ==
    /\ refreshInterval \in Intervals
    /\ timer = NULL
    /\ callback = NULL
    /\ armed = {}
    /\ ticking = {}
    /\ manual = 0
    /\ lastEvent = Event("init", <<>>, "none", "none", FALSE, FALSE)
    /\ HistoryIdle
    /\ AdaptersIdle

SchedulerNext ==
    \/ \E cb \in Callbacks : Start(cb)
    \/ Stop
    \/ \E x \in armed : \E mode \in CallModes : TimerFire(x, mode)
    \/ \E h \in ticking : \E outcome \in Settlements : TickDone(h, outcome)
    \/ \E mode \in CallModes : Trigger(mode)
    \/ \E outcome \in Settlements : TriggerDone(outcome)
    \/ \E v \in Intervals : ConfigChange(v)

SchedulerSpec == SchedulerInit /\ [][SchedulerNext]_vars

(***************************************************************************)
(* HistoryStorage                                                          *)
(*                                                                         *)
(* Time is in milliseconds, as Date.now() gives it. The clock is read on   *)
(* a whole day or one millisecond after it, so that a point can lie        *)
(* exactly on the cutoff, one millisecond inside it or outside it.         *)
(***************************************************************************)
MaxClockDays == 2    \* days the clock runs for
MaxPoints == 3       \* points the store holds, over all accounts

MsPerDay == 86400000 \* 24 * 60 * 60 * 1000
HistoryLimit == 1000 \* points kept per account

Accounts == {"a", "b"}
\* Values of the prediction.maxHistoryDays setting.
RetentionDays == {0, 1, 2}
\* Values of remaining and of total reported by a fetch.
Amounts == {0, 1}
Totals == {1}
\* The clock is read on a whole day or one millisecond after it.
ClockValues == {d * MsPerDay + ms : d \in 0..MaxClockDays, ms \in {0, 1}}

Point(ts, remaining, total) ==
    [timestamp |-> ts, remaining |-> remaining, total |-> total]

\* const cutoffTime = Date.now() - (this.maxHistoryDays * 24 * 60 * 60 * 1000)
CutoffTime(now, days) == now - days * MsPerDay

\* Variant of Survives: the comparison is >=, so a point exactly on the cutoff
\* is kept.
SurvivesOnCutoff(point, cutoff) == point.timestamp >= cutoff

\* point => point.timestamp > cutoffTime
Survives(point, cutoff) == point.timestamp > cutoff

\* history.filter(point => point.timestamp > cutoffTime): the points that
\* survive, in their order.
FilterRecent(seq, cutoff) == SelectSeq(seq, LAMBDA point : Survives(point, cutoff))

\* Variant of SliceLast: slice(0, n), the first n elements.
SliceFirst(seq, n) == IF Len(seq) > n THEN SubSeq(seq, 1, n) ELSE seq

\* history.slice(-n): the last n elements.
SliceLast(seq, n) ==
    IF Len(seq) > n THEN SubSeq(seq, Len(seq) - n + 1, Len(seq)) ELSE seq

\* Variant of Pruned: unshift() for push(), the new point goes to the front.
PrunedUnshift(history, point, cutoff) == FilterRecent(<<point>> \o history, cutoff)

\* Variant of Pruned: the old points are filtered before the new one is pushed.
PrunedBeforePush(history, point, cutoff) == Append(FilterRecent(history, cutoff), point)

\* Variant of Pruned: the cut to HistoryLimit points is missing.
PrunedUncapped(history, point, cutoff) == FilterRecent(Append(history, point), cutoff)

\* The series addDataPoint stores: the new point pushed, the old points
\* filtered out, the result cut to the last HistoryLimit points.
Pruned(history, point, cutoff) ==
    LET pushed == Append(history, point)
        recent == FilterRecent(pushed, cutoff)
    IN IF Len(recent) > HistoryLimit THEN SliceLast(recent, HistoryLimit) ELSE recent

\* getHistory(instanceId): this.data.get(instanceId) || []
GetHistory(id) == IF id \in DOMAIN data THEN data[id] ELSE <<>>

\* Variant of Saved: the map is written as it was before the mutation.
SavedBefore(map) == IF context THEN data ELSE stored

\* saveToStorage(): without the extension context nothing is written, nor when
\* globalState.update() throws; otherwise the whole map is stored under the
\* history key.
Saved(map) == IF context /\ ~storeThrows THEN map ELSE stored

\* Variant of MapSet: the map is left with the one entry.
MapSetOnly(map, id, value) == [k \in {id} |-> value]

\* Map.prototype.set
MapSet(map, id, value) ==
    [k \in DOMAIN map \cup {id} |-> IF k = id THEN value ELSE map[k]]

\* Variant of MapDelete: only the oldest point of the series is removed.
MapDeleteOldest(map, id) ==
    IF id \in DOMAIN map /\ map[id] # <<>> THEN MapSet(map, id, Tail(map[id])) ELSE map

\* Map.prototype.delete
MapDelete(map, id) == [k \in DOMAIN map \ {id} |-> map[k]]

\* The number of points in the map.
RECURSIVE SumLen(_, _)
SumLen(map, ids) ==
    IF ids = {} THEN 0
    ELSE LET id == CHOOSE x \in ids : TRUE
         IN Len(map[id]) + SumLen(map, ids \ {id})

TotalPoints(map) == SumLen(map, DOMAIN map)

\* addDataPoint(instanceId, remaining, total). Date.now() is read twice, for
\* the timestamp and for the cutoff; the clock may advance in between.
AddDataPointCall(id, remaining, total, elapsed) ==
    LET now == clock + elapsed
        point == Point(clock, remaining, total)
        history == Pruned(GetHistory(id), point, CutoffTime(now, maxHistoryDays))
    IN /\ clock' = now
       /\ data' = MapSet(data, id, history)
       /\ stored' = Saved(data')
       /\ histEvent' = HistEvent("addDataPoint", id,
                                  Len(GetHistory(id)) + 1 - Len(history), <<>>)
       /\ UNCHANGED <<maxHistoryDays, context>>
       /\ UNCHANGED notHistVars

\* addDataPoint while the clock and the number of points are within the bounds.
AddDataPoint(id, remaining, total, elapsed) ==
    /\ clock + elapsed \in ClockValues
    /\ TotalPoints(data) < MaxPoints
    /\ AddDataPointCall(id, remaining, total, elapsed)

\* Variant of AfterGet: a lookup that inserts an empty series for an unknown
\* account.
AfterGetInserting(map, id) == IF id \in DOMAIN map THEN map ELSE MapSet(map, id, <<>>)

\* this.data.get(instanceId) || []: the map after the lookup is the map before.
AfterGet(map, id) == map

\* A caller reads getHistory(instanceId).
GetHistoryCall(id) ==
    /\ data' = AfterGet(data, id)
    /\ histEvent' = HistEvent("getHistory", id, 0, GetHistory(id))
    /\ UNCHANGED <<clock, maxHistoryDays, context, stored>>
    /\ UNCHANGED notHistVars

\* clearHistory(instanceId)
ClearHistory(id) ==
    /\ data' = MapDelete(data, id)
    /\ stored' = Saved(data')
    /\ histEvent' = HistEvent("clearHistory", id, Len(GetHistory(id)), <<>>)
    /\ UNCHANGED <<clock, maxHistoryDays, context>>
    /\ UNCHANGED notHistVars

\* clearAll()
ClearAll ==
    /\ data' = <<>>
    /\ stored' = Saved(data')
    /\ histEvent' = HistEvent("clearAll", "", TotalPoints(data), <<>>)
    /\ UNCHANGED <<clock, maxHistoryDays, context>>
    /\ UNCHANGED notHistVars

\* Time passes between two calls: a millisecond, a day, or a millisecond less.
ClockSteps == {1, MsPerDay - 1, MsPerDay}

AdvanceClock(step) ==
    /\ clock + step \in ClockValues
    /\ clock' = clock + step
    /\ histEvent' = HistEvent("clock", "", 0, <<>>)
    /\ UNCHANGED <<maxHistoryDays, context, data, stored>>
    /\ UNCHANGED notHistVars

\* The scheduler is not used by the history store.
SchedulerIdle ==
    /\ refreshInterval = 0
    /\ timer = NULL
    /\ callback = NULL
    /\ armed = {}
    /\ ticking = {}
    /\ manual = 0
    /\ lastEvent = Event("init", <<>>, "none", "none", FALSE, FALSE)

\* What globalState may hold when the store is constructed: nothing, or a
\* series written by an earlier session.
InitialStores ==
    {<<>>} \cup {[k \in {id} |-> <<Point(0, r, 1)>>] : id \in Accounts, r \in Amounts}

\* new HistoryStorage(): maxHistoryDays is read from the configuration and
\* loadFromStorage() copies globalState into the map when the extension
\* context is there.
HistoryInit ==
    /\ clock = 0
    /\ maxHistoryDays \in RetentionDays
    /\ context \in BOOLEAN
    /\ stored \in InitialStores
    /\ data = IF context THEN stored ELSE <<>>
    /\ retentionSetting = maxHistoryDays
    /\ storeThrows = FALSE
    /\ appending = NoCalls
    /\ histEvent = HistEvent("init", "", 0, <<>>)
    /\ SchedulerIdle
    /\ AdaptersIdle

HistoryNext ==
    \/ \E id \in Accounts : \E r \in Amounts : \E t \in Totals : \E e \in {0, 1} :
          AddDataPoint(id, r, t, e)
    \/ \E id \in Accounts : ClearHistory(id)
    \/ ClearAll
    \/ \E step \in ClockSteps : AdvanceClock(step)

HistorySpec == HistoryInit /\ [][HistoryNext]_vars

(***************************************************************************)
(* HistoryStorage over a long run: one account is written once per         *)
(* millisecond from an empty store until its series passes HistoryLimit;   *)
(* then the series may be cleared, or the clock may jump by about a day,   *)
(* and the writes go on.                                                   *)
(***************************************************************************)
LongRunExtra == 3    \* writes made beyond HistoryLimit

LongRunAccounts == {"a"}
\* A day, and three milliseconds less: after the shorter jump the last point
\* written before it is the only one inside a window of one day.
LongRunJumps == {MsPerDay - 3, MsPerDay}

\* addDataPoint, the clock advancing by one millisecond during the call.
LongRunAdd(id) ==
    /\ clock % MsPerDay < HistoryLimit + 2 * LongRunExtra
    /\ AddDataPointCall(id, 1, 1, 1)

\* clearHistory once the series is full.
LongRunClearHistory(id) ==
    /\ Len(GetHistory(id)) >= HistoryLimit
    /\ ClearHistory(id)

\* clearAll once a series is full.
LongRunClearAll ==
    /\ \E id \in LongRunAccounts : Len(GetHistory(id)) >= HistoryLimit
    /\ ClearAll

\* The clock jumps once HistoryLimit writes were made.
LongRunJump(step) ==
    /\ clock >= HistoryLimit
    /\ clock <= HistoryLimit + LongRunExtra
    /\ clock' = clock + step
    /\ histEvent' = HistEvent("clock", "", 0, <<>>)
    /\ UNCHANGED <<maxHistoryDays, context, data, stored>>
    /\ UNCHANGED notHistVars

\* new HistoryStorage() over an empty globalState.
LongRunInit ==
    /\ clock = 0
    /\ maxHistoryDays \in RetentionDays
    /\ context \in BOOLEAN
    /\ stored = <<>>
    /\ data = <<>>
    /\ retentionSetting = maxHistoryDays
    /\ storeThrows = FALSE
    /\ appending = NoCalls
    /\ histEvent = HistEvent("init", "", 0, <<>>)
    /\ SchedulerIdle
    /\ AdaptersIdle

LongRunNext ==
    \/ \E id \in LongRunAccounts : LongRunAdd(id)
    \/ \E id \in LongRunAccounts : LongRunClearHistory(id)
    \/ LongRunClearAll
    \/ \E step \in LongRunJumps : LongRunJump(step)

HistoryLongRunSpec == LongRunInit /\ [][LongRunNext]_vars

\* The store constructed over an empty globalState, under every operation,
\* getHistory() included.
HistoryFreshNext ==
    \/ HistoryNext
    \/ \E id \in Accounts : GetHistoryCall(id)

HistoryFreshSpec == LongRunInit /\ [][HistoryFreshNext]_vars

(***************************************************************************)
(* AdapterRegistry (adapters/registry.ts).                                 *)
(*                                                                         *)
(* The adapters are kept in a Map keyed by instance id. A Map iterates in  *)
(* insertion order, and set() of a key that is present replaces the value  *)
(* where the key already stands; the sequence below is that iteration      *)
(* order. An adapter object is told from another one with the same id by   *)
(* stamp, the number of its register() call since the last clear().        *)
(* isConfigured() and isEnabled() read the configuration of the instance   *)
(* at the time of the call.                                                *)
(***************************************************************************)
MaxRegistrations == 3   \* register() calls between two clear() calls

notRegistryVars == <<schedVars, histVars, factoryVars, refreshVars, predictionVars, managerVars>>

Adapter(id, stamp) == [instanceId |-> id, stamp |-> stamp]

Range(seq) == {seq[i] : i \in 1..Len(seq)}

\* this.adapters.has(instanceId)
Has(seq, id) == \E i \in 1..Len(seq) : seq[i].instanceId = id

\* this.adapters.get(instanceId): the adapters stored under the id (at most one).
Get(seq, id) == {seq[i] : i \in {j \in 1..Len(seq) : seq[j].instanceId = id}}

\* count(): this.adapters.size
Count(seq) == Len(seq)

\* Variant of AdaptersSet: the entry is added whether or not the key is there.
AdaptersSetAppend(seq, adapter) == Append(seq, adapter)

\* this.adapters.set(adapter.instanceId, adapter)
AdaptersSet(seq, adapter) ==
    IF Has(seq, adapter.instanceId)
    THEN [i \in 1..Len(seq) |->
             IF seq[i].instanceId = adapter.instanceId THEN adapter ELSE seq[i]]
    ELSE Append(seq, adapter)

\* this.adapters.delete(instanceId)
AdaptersDelete(seq, id) == SelectSeq(seq, LAMBDA a : a.instanceId # id)

\* Variant of AdaptersClear: the entries stay.
AdaptersClearKeeps(seq) == seq

\* this.adapters.clear()
AdaptersClear(seq) == <<>>

IsConfigured(adapter) == settings[adapter.instanceId].configured

IsEnabled(adapter) == settings[adapter.instanceId].enabled

GetAll == adapters

GetConfigured == SelectSeq(GetAll, LAMBDA a : IsConfigured(a))

GetEnabled == SelectSeq(GetAll, LAMBDA a : IsEnabled(a))

\* A filter that lets through what is configured or enabled.
IsActiveEither(adapter) == IsConfigured(adapter) \/ IsEnabled(adapter)

\* The filter of getActive().
IsActive(adapter) == IsConfigured(adapter) /\ IsEnabled(adapter)

GetActive == SelectSeq(GetAll, LAMBDA a : IsActive(a))

\* register(adapter), for a new adapter object with instance id `id`.
Register(id) ==
    /\ registrations < MaxRegistrations
    /\ registrations' = registrations + 1
    /\ adapters' = AdaptersSet(adapters, Adapter(id, registrations + 1))
    /\ UNCHANGED settings
    /\ UNCHANGED notRegistryVars

Unregister(id) ==
    /\ adapters' = AdaptersDelete(adapters, id)
    /\ UNCHANGED <<registrations, settings>>
    /\ UNCHANGED notRegistryVars

Clear ==
    /\ adapters' = <<>>
    /\ registrations' = 0
    /\ UNCHANGED settings
    /\ UNCHANGED notRegistryVars

\* The configuration of an instance changes (setEnabled(), a settings edit):
\* key is "configured" (the credentials are there) or "enabled".
UpdateSetting(id, key, value) ==
    /\ settings[id][key] # value
    /\ settings' = [settings EXCEPT ![id][key] = value]
    /\ UNCHANGED <<adapters, registrations>>
    /\ UNCHANGED notRegistryVars

SettingKeys == {"configured", "enabled"}

\* new AdapterRegistry(): no adapter; the configuration is whatever the user has.
RegistryInit ==
    /\ adapters = <<>>
    /\ registrations = 0
    /\ settings \in [InstanceIds -> [configured : BOOLEAN, enabled : BOOLEAN]]
    /\ SchedulerIdle
    /\ HistoryIdle
    /\ FactoryIdle
    /\ RefreshIdle
    /\ PredictionIdle
    /\ ManagerIdle

RegistryNext ==
    \/ \E id \in InstanceIds : Register(id)
    \/ \E id \in InstanceIds : Unregister(id)
    \/ Clear
    \/ \E id \in InstanceIds, key \in SettingKeys, value \in BOOLEAN :
          UpdateSetting(id, key, value)

RegistrySpec == RegistryInit /\ [][RegistryNext]_vars

(***************************************************************************)
(* AdapterFactory (adapters/factory.ts) and the platform type registry.    *)
(*                                                                         *)
(* An account record carries its id, its platform type, and whether the    *)
(* adapter constructor accepts it. A platform type is registered when its  *)
(* adapter module is imported; no module registers the type "legacy".      *)
(* createAdapter() returns an adapter, or null; a call that lets an        *)
(* exception escape is the outcome "raise".                                *)
(***************************************************************************)
MaxAccounts == 2        \* account records in the 'accounts' setting

notFactoryVars == <<schedVars, histVars, refreshVars, settings, predictionVars, managerVars>>

AdapterModules == {"deepseek"}

AccountTypes == AdapterModules \cup {"legacy"}

AccountRecords == [id : {"x", "y"}, type : AccountTypes, constructs : BOOLEAN]

\* new platformType.AdapterClass(...) with an exception that escapes.
ConstructedUncaught(account) ==
    IF account.constructs
    THEN [kind |-> "adapter", instanceId |-> account.id, type |-> account.type]
    ELSE [kind |-> "raise"]

\* try { return new platformType.AdapterClass(...) } catch { return null }
Constructed(account) ==
    IF account.constructs
    THEN [kind |-> "adapter", instanceId |-> account.id, type |-> account.type]
    ELSE [kind |-> "null"]

CreateAdapter(account, types) ==
    IF account.type \notin types
    THEN [kind |-> "null"]
    ELSE Constructed(account)

\* The loop of createAdaptersFromConfig() over the records still to visit,
\* with the adapters pushed so far.
RECURSIVE CreateEach(_, _, _)
CreateEach(records, types, pushed) ==
    IF records = <<>>
    THEN [raised |-> FALSE, adapters |-> pushed]
    ELSE LET adapter == CreateAdapter(Head(records), types)
         IN IF adapter.kind = "raise"
            THEN [raised |-> TRUE, adapters |-> <<>>]
            ELSE CreateEach(Tail(records), types,
                            IF adapter.kind = "adapter"
                            THEN Append(pushed, adapter)
                            ELSE pushed)

CreateAdaptersFromConfig == CreateEach(accounts, platformTypes, <<>>)

\* What a createAdaptersFromConfig() call leaves to observe.
Created(result) ==
    [call |-> 1 - created.call, raised |-> result.raised, adapters |-> result.adapters,
     registered |-> FALSE]

\* registry.register(adapter) for each adapter of the list, in order.
RECURSIVE RegisterEach(_, _, _)
RegisterEach(list, seq, count) ==
    IF list = <<>>
    THEN [adapters |-> seq, registrations |-> count]
    ELSE RegisterEach(Tail(list),
                      AdaptersSet(seq, Adapter(Head(list).instanceId, count + 1)),
                      count + 1)

\* An adapter module is imported and registers its platform type.
ImportAdapter(type) ==
    /\ type \notin platformTypes
    /\ platformTypes' = platformTypes \cup {type}
    /\ UNCHANGED <<accounts, created, adapters, registrations>>
    /\ UNCHANGED notFactoryVars

\* saveAccount(): the record is appended to the 'accounts' setting.
SaveAccount(account) ==
    /\ Len(accounts) < MaxAccounts
    /\ accounts' = Append(accounts, account)
    /\ UNCHANGED <<platformTypes, created, adapters, registrations>>
    /\ UNCHANGED notFactoryVars

\* deleteAccount(): the records with the id leave the 'accounts' setting.
DeleteAccount(id) ==
    /\ \E i \in 1..Len(accounts) : accounts[i].id = id
    /\ accounts' = SelectSeq(accounts, LAMBDA a : a.id # id)
    /\ UNCHANGED <<platformTypes, created, adapters, registrations>>
    /\ UNCHANGED notFactoryVars

\* adapterFactory.createAdaptersFromConfig(), called on its own.
CreateAdaptersFromConfigCall ==
    /\ created' = Created(CreateAdaptersFromConfig)
    /\ UNCHANGED <<accounts, platformTypes, adapters, registrations>>
    /\ UNCHANGED notFactoryVars

\* UsageManager.registerAdaptersFromConfig(): clear(), createAdaptersFromConfig(),
\* register() of each adapter; an exception of the factory leaves the registry
\* cleared.
RegisterAdaptersFromConfig ==
    LET result == CreateAdaptersFromConfig
        registered == RegisterEach(result.adapters, AdaptersClear(adapters), 0)
    IN /\ created' = [Created(result) EXCEPT !.registered = TRUE]
       /\ adapters' = registered.adapters
       /\ registrations' = registered.registrations
       /\ UNCHANGED <<accounts, platformTypes>>
       /\ UNCHANGED notFactoryVars

\* The extension starts with the account records the user has saved, before
\* any adapter module is imported.
InitialAccounts == {<<>>} \cup {<<a>> : a \in AccountRecords}

FactoryInit ==
    /\ accounts \in InitialAccounts
    /\ platformTypes = {}
    /\ created = [call |-> 0, raised |-> FALSE, adapters |-> <<>>, registered |-> FALSE]
    /\ SchedulerIdle
    /\ HistoryIdle
    /\ RegistryIdle
    /\ RefreshIdle
    /\ PredictionIdle
    /\ ManagerIdle

FactoryNext ==
    \/ \E type \in AdapterModules : ImportAdapter(type)
    \/ \E account \in AccountRecords : SaveAccount(account)
    \/ \E id \in {"x", "y"} : DeleteAccount(id)
    \/ CreateAdaptersFromConfigCall
    \/ RegisterAdaptersFromConfig

FactorySpec == FactoryInit /\ [][FactoryNext]_vars


(***************************************************************************)
(* A refresh cycle: UsageManager.refreshAll() and refreshPlatform(), with   *)
(* the fetchUsage() of the adapters (adapters/deepseek.ts; the other        *)
(* adapters have the same structure) over fetchJson() (utils/http.ts).      *)
(*                                                                         *)
(* refreshAll() takes getActive() once and awaits refreshPlatform(id) for   *)
(* each adapter in turn; refreshPlatform() looks the id up again and awaits *)
(* fetchUsage(). The code runs without yielding to another handler until a  *)
(* network request is pending, so a step goes from one network settlement   *)
(* to the next request, or to the end of the cycle. The model follows one   *)
(* cycle at a time.                                                         *)
(***************************************************************************)
\* What the body of a response is: a balance, an API-level error, or the
\* JSON value null.
Bodies == {"balance", "apiError", "null"}

\* How fetch() goes: a body is parsed, the status is not ok, the request
\* fails, the body is no JSON.
PrimaryOutcomes == {"body", "httpError", "networkError", "badJson"}

\* How httpRequest() goes: data with a status below 400, a status of 400 or
\* more, a request error, a timeout.
FallbackOutcomes == {"data", "status400", "error", "timeout"}

\* The try block of fetchUsage() once fetchJson() has returned a body: the
\* API-level check and transformResponse() return a usage, or throw.
Attempt(body) == IF body = "balance" THEN "usage" ELSE "thrown"

\* A fetchUsage() whose try block has no catch: what is thrown rejects.
SettleUncaught(attempt) ==
    IF attempt = "usage"
    THEN [settled |-> "fulfilled", result |-> FetchResult(TRUE, TRUE, FALSE)]
    ELSE [settled |-> "rejected", result |-> FetchResult(FALSE, FALSE, FALSE)]

\* try { ... return {configured: true, usage} }
\* catch { return {configured: true, error} }
Settle(attempt) ==
    IF attempt = "usage"
    THEN [settled |-> "fulfilled", result |-> FetchResult(TRUE, TRUE, FALSE)]
    ELSE [settled |-> "fulfilled", result |-> FetchResult(TRUE, FALSE, TRUE)]

\* if (!this.isConfigured()) return {configured: false, error}
NotConfigured == [settled |-> "fulfilled", result |-> FetchResult(FALSE, FALSE, TRUE)]

\* What refreshPlatform() does with the settled fetchUsage(): the usage goes
\* to the status bar and the tree view, or the error is shown.
Delivered(outcome) ==
    IF outcome.settled # "fulfilled" THEN "none"
    ELSE IF outcome.result.usage THEN "usage"
    ELSE IF outcome.result.error THEN "error"
    ELSE "none"

\* One refreshPlatform(id) call of the cycle: whether registry.get(id) found
\* an adapter, what isConfigured() answered, how fetchUsage() settled, the
\* network requests it made, what was delivered.
Refreshed(id, found, configured, outcome, calls) ==
    [id |-> id, found |-> found, configured |-> configured,
     settled |-> outcome.settled, result |-> outcome.result, calls |-> calls,
     delivered |-> Delivered(outcome)]

NotFound(id) ==
    [id |-> id, found |-> FALSE, configured |-> FALSE, settled |-> "none",
     result |-> FetchResult(FALSE, FALSE, FALSE), calls |-> 0, delivered |-> "none"]

\* A loop that goes on to the next adapter only after a usage.
ContinuesAfterUsage(entry) == entry.found /\ entry.result.usage

\* for (...) { await this.refreshPlatform(id) }: the loop goes on unless the
\* awaited promise rejects.
Continues(entry) == entry.settled # "rejected"

NoFetch == [phase |-> "idle", id |-> "", calls |-> 0]

\* The cycle from the adapter at pos on, up to the first network request or
\* to the end of the loop.
RECURSIVE Drive(_, _, _)
Drive(snapshot, pos, log) ==
    IF pos > Len(snapshot)
    THEN [refresh |-> [state |-> "done", snapshot |-> snapshot, pos |-> pos, log |-> log],
          fetching |-> NoFetch]
    ELSE LET id == snapshot[pos]
         IN IF ~Has(adapters, id)
            THEN Drive(snapshot, pos + 1, Append(log, NotFound(id)))
            ELSE IF ~settings[id].configured
            THEN LET entry == Refreshed(id, TRUE, FALSE, NotConfigured, 0)
                 IN IF Continues(entry)
                    THEN Drive(snapshot, pos + 1, Append(log, entry))
                    ELSE [refresh |-> [state |-> "aborted", snapshot |-> snapshot,
                                       pos |-> pos, log |-> Append(log, entry)],
                          fetching |-> NoFetch]
            ELSE [refresh |-> [state |-> "running", snapshot |-> snapshot,
                               pos |-> pos, log |-> log],
                  fetching |-> [phase |-> "primary", id |-> id, calls |-> 1]]

\* The cycle once the pending fetchUsage() has settled.
AfterFetch(outcome) ==
    LET entry == Refreshed(fetching.id, TRUE, TRUE, outcome, fetching.calls)
        log == Append(refresh.log, entry)
    IN IF Continues(entry)
       THEN Drive(refresh.snapshot, refresh.pos + 1, log)
       ELSE [refresh |-> [state |-> "aborted", snapshot |-> refresh.snapshot,
                          pos |-> refresh.pos, log |-> log],
             fetching |-> NoFetch]

InstanceIdsOf(list) == [i \in 1..Len(list) |-> list[i].instanceId]

\* refreshAll() is called (by the scheduler, by the refresh command).
RefreshAll ==
    /\ refresh.state # "running"
    /\ LET activeAdapters == InstanceIdsOf(GetActive)
           next == Drive(activeAdapters, 1, <<>>)
       IN IF activeAdapters = <<>>
          THEN /\ refresh' = [state |-> "empty", snapshot |-> <<>>, pos |-> 1, log |-> <<>>]
               /\ fetching' = NoFetch
          ELSE /\ refresh' = next.refresh
               /\ fetching' = next.fetching
    /\ UNCHANGED <<schedVars, histVars, registryVars, factoryVars, predictionVars,
                 managerVars>>

\* fetch() of fetchJson() settles: a body goes to the adapter, anything else
\* makes fetchJson() fall back to httpRequest().
PrimaryDone(outcome, body) ==
    /\ fetching.phase = "primary"
    /\ IF outcome = "body"
       THEN LET next == AfterFetch(Settle(Attempt(body)))
            IN /\ refresh' = next.refresh
               /\ fetching' = next.fetching
       ELSE /\ fetching' = [fetching EXCEPT !.phase = "fallback", !.calls = @ + 1]
            /\ UNCHANGED refresh
    /\ UNCHANGED <<schedVars, histVars, registryVars, factoryVars, predictionVars,
                 managerVars>>

\* httpRequest() of fetchJson() settles: data goes to the adapter, anything
\* else is thrown into the try block of fetchUsage().
FallbackDone(outcome, body) ==
    /\ fetching.phase = "fallback"
    /\ LET attempt == IF outcome = "data" THEN Attempt(body) ELSE "thrown"
           next == AfterFetch(Settle(attempt))
       IN /\ refresh' = next.refresh
          /\ fetching' = next.fetching
    /\ UNCHANGED <<schedVars, histVars, registryVars, factoryVars, predictionVars,
                 managerVars>>

\* The manager has registered the adapters of three accounts; the
\* configuration is whatever the user has.
RefreshInit ==
    /\ adapters = <<Adapter("x", 1), Adapter("y", 2), Adapter("z", 3)>>
    /\ registrations = 3
    /\ settings \in [InstanceIds -> [configured : BOOLEAN, enabled : BOOLEAN]]
    /\ refresh = [state |-> "idle", snapshot |-> <<>>, pos |-> 1, log |-> <<>>]
    /\ fetching = NoFetch
    /\ SchedulerIdle
    /\ HistoryIdle
    /\ FactoryIdle
    /\ PredictionIdle
    /\ ManagerIdle

RefreshNext ==
    \/ RefreshAll
    \/ \E outcome \in PrimaryOutcomes, body \in Bodies : PrimaryDone(outcome, body)
    \/ \E outcome \in FallbackOutcomes, body \in Bodies : FallbackDone(outcome, body)
    \/ \E id \in InstanceIds : Unregister(id)
    \/ \E id \in InstanceIds, key \in SettingKeys, value \in BOOLEAN :
          UpdateSetting(id, key, value)

RefreshSpec == RefreshInit /\ [][RefreshNext]_vars


(***************************************************************************)
(* The depletion prediction.  It reads the usage data points of one        *)
(* account, oldest first, and the current time.  Times are counted in half *)
(* hours; rates, durations and dates are rational numbers, kept as a       *)
(* numerator over a denominator.                                           *)
(***************************************************************************)
MaxSeries == 3          \* data points of the series

TicksPerDay == 48

\* The shortest span of data a prediction is computed from: one hour.
MinElapsed == 2

Remainings == {0, 80, 100}
TickSteps == {0, 1, TicksPerDay}

RECURSIVE Gcd(_, _)
Gcd(a, b) == IF b = 0 THEN a ELSE Gcd(b, a % b)

\* n / d in lowest terms; a division by zero keeps the denominator 0.
Ratio(n, d) ==
    IF d = 0 \/ n < 0 THEN [num |-> n, den |-> d]
    ELSE [num |-> n \div Gcd(n, d), den |-> d \div Gcd(n, d)]

\* a = b, for ratios with denominators that are not zero.
RatEq(a, b) == a.num * b.den = b.num * a.den

Earliest(points) == points[1]
Latest(points) == points[Len(points)]

\* latest.timestamp - earliest.timestamp
Elapsed(points) == Latest(points).timestamp - Earliest(points).timestamp

\* remaining_at_earliest - remaining_at_latest
Consumed(points) == Earliest(points).remaining - Latest(points).remaining

\* The rate is used when it is positive.
RateUsableOrZero(consumed) == consumed >= 0

RateUsable(consumed) == consumed > 0

Unavailable == [computed |-> TRUE, available |-> FALSE]

\* dailyUsageRate = consumed / elapsedDays, with elapsedDays = elapsed / TicksPerDay.
DailyUsageRate(points) == Ratio(Consumed(points) * TicksPerDay, Elapsed(points))

\* The balance that DaysUntilDepletion divides by the rate.
BalanceOfEarliest(points) == Earliest(points).remaining

Balance(points) == Latest(points).remaining

\* daysUntilDepletion = balance / dailyUsageRate
DaysUntilDepletion(points) ==
    Ratio(Balance(points) * DailyUsageRate(points).den, DailyUsageRate(points).num)

\* estimatedDepletionDate = t + daysUntilDepletion days, in half hours.
EstimatedDepletionDate(points, t) ==
    Ratio(t * DaysUntilDepletion(points).den
              + DaysUntilDepletion(points).num * TicksPerDay,
          DaysUntilDepletion(points).den)

Predict(points, t) ==
    IF Len(points) < 2 THEN Unavailable
    ELSE IF Elapsed(points) < MinElapsed THEN Unavailable
    ELSE IF ~RateUsable(Consumed(points)) THEN Unavailable
    ELSE [computed |-> TRUE, available |-> TRUE,
          dailyUsageRate |-> DailyUsageRate(points),
          daysUntilDepletion |-> DaysUntilDepletion(points),
          estimatedDepletionDate |-> EstimatedDepletionDate(points, t)]

\* A usage arrives: a data point is appended with timestamp = now.
Observe(remaining, step) ==
    /\ Len(series) < MaxSeries
    /\ instant' = instant + step
    /\ series' = Append(series, [timestamp |-> instant', remaining |-> remaining])
    /\ prediction' = NoPrediction
    /\ UNCHANGED <<schedVars, histVars, registryVars, factoryVars, refreshVars,
                   managerVars>>

\* The prediction of the account is asked for.
PredictCall(step) ==
    /\ instant + step <= MaxSeries * TicksPerDay
    /\ instant' = instant + step
    /\ prediction' = Predict(series, instant')
    /\ UNCHANGED <<series, schedVars, histVars, registryVars, factoryVars,
                   refreshVars, managerVars>>

PredictionInit ==
    /\ PredictionIdle
    /\ ManagerIdle
    /\ SchedulerIdle
    /\ HistoryIdle
    /\ RegistryIdle
    /\ FactoryIdle
    /\ RefreshIdle

PredictionNext ==
    \/ \E remaining \in Remainings, step \in TickSteps : Observe(remaining, step)
    \/ \E step \in {0, TicksPerDay} : PredictCall(step)

PredictionSpec == PredictionInit /\ [][PredictionNext]_vars


(***************************************************************************)
(* The scheduler once started and left running: start() is called once,    *)
(* stop() never, and the refreshInterval setting is not changed.  A        *)
(* pending timer fires in the end, and a callback that was called settles  *)
(* in the end.                                                             *)
(***************************************************************************)
\* The extension's one call of start(): manager.initialize().
StartOnce(cb) ==
    /\ callback = NULL
    /\ Start(cb)

RunningNext ==
    \/ \E cb \in Callbacks : StartOnce(cb)
    \/ \E x \in armed : \E mode \in CallModes : TimerFire(x, mode)
    \/ \E h \in ticking : \E outcome \in Settlements : TickDone(h, outcome)
    \/ \E mode \in CallModes : Trigger(mode)
    \/ \E outcome \in Settlements : TriggerDone(outcome)

TimersFire == WF_vars(\E x \in armed : \E mode \in CallModes : TimerFire(x, mode))

CallbacksSettle ==
    WF_vars(\E h \in ticking : \E outcome \in Settlements : TickDone(h, outcome))

SchedulerRunningSpec ==
    SchedulerInit /\ [][RunningNext]_vars /\ TimersFire /\ CallbacksSettle


(***************************************************************************)
(* UsageManager: what calls refreshAll().  initialize() starts the         *)
(* scheduler with the callback () => this.refreshAll() and then runs the   *)
(* initial refresh itself; the command 'ai-usage-monitor.refresh' calls    *)
(* refreshAll() directly.  A refreshAll() that finds an active adapter     *)
(* awaits its fetchUsage() and is in progress until its loop has ended;    *)
(* one that finds none returns at once.                                    *)
(***************************************************************************)
\* The callback () => this.refreshAll().
RefreshAllCallback == 1

\* refreshAll() has an adapter to await: registry.getActive() is not empty.
AwaitsFetch == GetActive # <<>>

\* refreshAll() is called: the executions in progress once it awaits a
\* fetchUsage() or has returned.
BeginCycle(origin) ==
    IF AwaitsFetch THEN [cycles EXCEPT ![origin] = @ + 1] ELSE cycles

\* initialize(): this.scheduler.start(() => this.refreshAll()), then
\* await this.refreshAll().
Initialize ==
    LET nxt == ScheduleNext(GetRefreshInterval(refreshInterval), NULL,
                            StopArmed(timer, armed), Used)
    IN /\ lastEvent.op = "init"
       /\ timer' = nxt.timer
       /\ armed' = nxt.armed
       /\ callback' = RefreshAllCallback
       /\ cycles' = BeginCycle("initial")
       /\ lastEvent' = Event("start", <<>>, "none", "none", TRUE, FALSE)
       /\ UNCHANGED <<refreshInterval, ticking, manual>>
       /\ UNCHANGED <<histVars, registryVars, factoryVars, refreshVars, predictionVars>>

\* A timer of the scheduler fires and its handler calls refreshAll(): the
\* handler awaits the cycle, or, the cycle having returned at once, goes on
\* to scheduleNext().
ManagerTick(x) ==
    LET begun == BeginCycle("tick")
        nxt == ScheduleNext(GetRefreshInterval(refreshInterval), timer, armed \ {x}, Used)
    IN /\ x \in armed
       /\ callback # NULL
       /\ cycles' = begun
       /\ IF begun # cycles
          THEN /\ ticking' = ticking \cup {x.h}
               /\ armed' = armed \ {x}
               /\ timer' = timer
               /\ lastEvent' = Event("tick", TickInvokes(callback), "none", "none",
                                     FALSE, FALSE)
          ELSE /\ CanSchedule(GetRefreshInterval(refreshInterval), Used)
               /\ ticking' = ticking
               /\ armed' = nxt.armed
               /\ timer' = nxt.timer
               /\ lastEvent' = Event("tick", TickInvokes(callback), "ok", "none",
                                     TRUE, FALSE)
       /\ UNCHANGED <<refreshInterval, callback, manual>>
       /\ UNCHANGED <<histVars, registryVars, factoryVars, refreshVars, predictionVars>>

\* The cycle a timer handler awaits has ended: the handler calls scheduleNext().
TickCycleDone(h) ==
    LET nxt == ScheduleNext(GetRefreshInterval(refreshInterval), timer, armed, Used)
    IN /\ h \in ticking
       /\ CanSchedule(GetRefreshInterval(refreshInterval), Used)
       /\ cycles' = [cycles EXCEPT !["tick"] = @ - 1]
       /\ ticking' = ticking \ {h}
       /\ armed' = nxt.armed
       /\ timer' = nxt.timer
       /\ lastEvent' = Event("tickDone", <<>>, "ok", "none", TRUE, FALSE)
       /\ UNCHANGED <<refreshInterval, callback, manual>>
       /\ UNCHANGED <<histVars, registryVars, factoryVars, refreshVars, predictionVars>>

\* The command 'ai-usage-monitor.refresh' runs: () => this.refreshAll(). With no
\* active adapter the call returns at once and changes nothing.
RefreshCommand ==
    /\ cycles["command"] < MaxManual
    /\ AwaitsFetch
    /\ cycles' = BeginCycle("command")
    /\ UNCHANGED <<schedVars, histVars, registryVars, factoryVars, refreshVars,
                   predictionVars>>

\* The cycle begun by initialize() or by the command has ended.
CycleDone(origin) ==
    /\ cycles[origin] > 0
    /\ cycles' = [cycles EXCEPT ![origin] = @ - 1]
    /\ UNCHANGED <<schedVars, histVars, registryVars, factoryVars, refreshVars,
                   predictionVars>>

\* new UsageManager(): the adapters of three accounts are registered, the
\* configuration is whatever the user has, the scheduler is constructed.
ManagerInit ==
    /\ adapters = <<Adapter("x", 1), Adapter("y", 2), Adapter("z", 3)>>
    /\ registrations = 3
    /\ settings \in [InstanceIds -> [configured : BOOLEAN, enabled : BOOLEAN]]
    /\ refreshInterval \in Intervals
    /\ timer = NULL
    /\ callback = NULL
    /\ armed = {}
    /\ ticking = {}
    /\ manual = 0
    /\ lastEvent = Event("init", <<>>, "none", "none", FALSE, FALSE)
    /\ HistoryIdle
    /\ FactoryIdle
    /\ RefreshIdle
    /\ PredictionIdle
    /\ ManagerIdle

ManagerNext ==
    \/ Initialize
    \/ \E x \in armed : ManagerTick(x)
    \/ \E h \in ticking : TickCycleDone(h)
    \/ RefreshCommand
    \/ \E origin \in {"initial", "command"} : CycleDone(origin)

ManagerSpec == ManagerInit /\ [][ManagerNext]_vars


(***************************************************************************)
(* The history store over its life: the retention setting changes, the     *)
(* durable store starts or stops throwing, the store is disposed of, and   *)
(* a new HistoryStorage is constructed over what globalState holds.        *)
(***************************************************************************)
\* Variant of Loaded: the value read is not copied into the map.
LoadedNothing == <<>>

\* loadFromStorage() on a new store, whose map is empty: without the
\* extension context, or when globalState.get() throws, the map stays empty;
\* otherwise it is what globalState holds.
Loaded == IF context /\ ~storeThrows THEN stored ELSE <<>>

\* The user changes the setting 'prediction.maxHistoryDays'.
ChangeRetentionSetting(days) ==
    /\ days # retentionSetting
    /\ retentionSetting' = days
    /\ UNCHANGED <<clock, maxHistoryDays, context, data, stored, histEvent, storeThrows,
                   appending>>
    /\ UNCHANGED <<schedVars, registryVars, factoryVars, refreshVars, predictionVars,
                   managerVars>>

\* globalState begins or ceases to throw.
StoreFault(throws) ==
    /\ throws # storeThrows
    /\ storeThrows' = throws
    /\ UNCHANGED <<clock, maxHistoryDays, context, data, stored, histEvent,
                   retentionSetting, appending>>
    /\ UNCHANGED <<schedVars, registryVars, factoryVars, refreshVars, predictionVars,
                   managerVars>>

\* new HistoryStorage(), in a later session or after the earlier store was
\* dropped: the setting is read into maxHistoryDays, then loadFromStorage().
Construct ==
    /\ maxHistoryDays' = retentionSetting
    /\ data' = Loaded
    /\ histEvent' = HistEvent("construct", "", 0, <<>>)
    /\ UNCHANGED <<clock, context, stored>>
    /\ UNCHANGED notHistVars

\* Variant of Disposed: dispose() leaves the map as it is.
DisposedKept(map) == map

\* dispose(): this.clearAll(), that is this.data.clear()
Disposed(map) == <<>>

\* dispose(): this.clearAll()
Dispose ==
    /\ data' = Disposed(data)
    /\ stored' = Saved(data')
    /\ histEvent' = HistEvent("dispose", "", TotalPoints(data), <<>>)
    /\ UNCHANGED <<clock, maxHistoryDays, context>>
    /\ UNCHANGED notHistVars

\* new HistoryStorage() over what an earlier session left, with globalState
\* in order or throwing.
StoreInit ==
    /\ clock = 0
    /\ maxHistoryDays \in RetentionDays
    /\ retentionSetting = maxHistoryDays
    /\ context \in BOOLEAN
    /\ storeThrows \in BOOLEAN
    /\ appending = NoCalls
    /\ stored \in InitialStores
    /\ data = Loaded
    /\ histEvent = HistEvent("init", "", 0, <<>>)
    /\ SchedulerIdle
    /\ AdaptersIdle

StoreNext ==
    \/ \E id \in Accounts : \E t \in Totals : AddDataPoint(id, 1, t, 0)
    \/ \E id \in Accounts : ClearHistory(id)
    \/ ClearAll
    \/ \E days \in RetentionDays : ChangeRetentionSetting(days)
    \/ \E throws \in BOOLEAN : StoreFault(throws)
    \/ Construct
    \/ Dispose

StoreSpec == StoreInit /\ [][StoreNext]_vars


(***************************************************************************)
(* Callers of addDataPoint(). The method is synchronous: between its read  *)
(* of the series (line 30) and its write (lines 43 to 46) it awaits        *)
(* nothing, so the event loop runs it to completion before another history *)
(* operation starts. The call is taken in two steps here, the read and     *)
(* the write, and what keeps other operations out is stated on its own.    *)
(***************************************************************************)
\* Variant of Yields: the call awaits between its read and its write.
YieldsBeforeWrite == TRUE

\* addDataPoint() is not async and awaits nothing: a call in execution does not
\* yield to the event loop.
Yields == FALSE

\* The callers inside addDataPoint().
Calling == {c \in Callers : appending[c].pc # "idle"}

\* Another history operation can start: none is in execution, or it has yielded.
CanStart == Calling = {} \/ Yields

\* Lines 24 to 30: the point is stamped with Date.now(), the series is read.
AddBegin(c, id, remaining, total) ==
    /\ appending[c].pc = "idle"
    /\ CanStart
    /\ TotalPoints(data) < MaxPoints
    /\ appending' = [appending EXCEPT ![c] =
                        [pc |-> "read", id |-> id,
                         point |-> Point(clock, remaining, total),
                         history |-> GetHistory(id)]]
    /\ histEvent' = HistEvent("addBegin", id, 0, <<>>)
    /\ UNCHANGED <<clock, maxHistoryDays, context, data, stored>>
    /\ UNCHANGED <<schedVars, registryVars, factoryVars, refreshVars, predictionVars,
                   managerVars, storeEnvVars>>

\* Lines 31 to 46: the point is pushed, the series filtered and cut, the map
\* entry replaced and the map saved.
AddEnd(c, elapsed) ==
    /\ appending[c].pc = "read"
    /\ clock + elapsed \in ClockValues
    /\ LET call == appending[c]
           history == Pruned(call.history, call.point,
                             CutoffTime(clock + elapsed, maxHistoryDays))
       IN /\ clock' = clock + elapsed
          /\ data' = MapSet(data, call.id, history)
          /\ stored' = Saved(data')
          /\ histEvent' = HistEvent("addDataPoint", call.id,
                                     Len(call.history) + 1 - Len(history), <<>>)
    /\ appending' = [appending EXCEPT ![c] = NotCalling]
    /\ UNCHANGED <<maxHistoryDays, context>>
    /\ UNCHANGED <<schedVars, registryVars, factoryVars, refreshVars, predictionVars,
                   managerVars, storeEnvVars>>

CallersNext ==
    \/ \E c \in Callers : \E id \in Accounts : \E t \in Totals : AddBegin(c, id, 1, t)
    \/ \E c \in Callers : \E e \in {0, 1} : AddEnd(c, e)
    \/ CanStart /\ \E id \in Accounts : ClearHistory(id)
    \/ CanStart /\ ClearAll
    \/ CanStart /\ \E step \in ClockSteps : AdvanceClock(step)

CallersSpec == HistoryInit /\ [][CallersNext]_vars


(***************************************************************************)
(* Properties of the scheduler, checked under SchedulerSpec.               *)
(***************************************************************************)

\* C1: a timer-driven invocation of the callback never starts while an earlier
\* timer-driven invocation has not completed: at most one timer handler is
\* awaiting its callback.
C1_NoOverlappingTicks == Cardinality(ticking) <= 1

\* C2: from stop() until the next start() (exactly the states in which no
\* callback is registered) the scheduler is Idle: no timer is pending and none
\* gets armed.
C2_StoppedIsIdle == callback = NULL => armed = {}

\* C3: at most one timer is pending in every reachable state.
C3_AtMostOneTimer == Cardinality(armed) <= 1

\* C4: trigger() invokes the registered callback exactly once, in the same
\* step, and nothing when none is registered; it leaves the stored handle, the
\* pending timers with their delays and the registered callback unchanged.
C4_TriggerFrame ==
    [][lastEvent'.op = "trigger" =>
          /\ lastEvent'.invoked = (IF callback # NULL THEN <<callback>> ELSE <<>>)
          /\ UNCHANGED <<timer, armed, callback, refreshInterval>>]_vars

C4_Witness ==
    /\ lastEvent.op = "trigger"
    /\ lastEvent.invoked = <<callback>>
    /\ armed # {}

\* C5: a scheduling decision (scheduleNext at start(), at a restart or after a
\* tick) made with an interval <= 0 arms no timer and leaves a callback
\* registered; a trigger() while the interval is <= 0 still invokes the
\* registered callback exactly once.
C5_DisabledArmsNothing ==
    [][/\ (lastEvent'.scheduled /\ refreshInterval' <= 0) =>
            /\ armed' \subseteq armed
            /\ lastEvent'.op \in {"start", "config"} => callback' # NULL
            /\ lastEvent'.op \in {"tick", "tickDone"} => callback' = callback
       /\ (lastEvent'.op = "trigger" /\ refreshInterval <= 0 /\ callback # NULL) =>
            lastEvent'.invoked = <<callback>>]_vars

C5_Witness ==
    /\ lastEvent.op = "trigger"
    /\ refreshInterval <= 0
    /\ callback # NULL
    /\ lastEvent.invoked = <<callback>>
    /\ armed = {}

\* C6: when the callback throws or rejects during a timer-driven tick while a
\* callback is registered and the interval is > 0, the handler still arms the
\* next timer and stores its handle.
C6_TickSelfHeals ==
    [][(/\ lastEvent'.op \in {"tick", "tickDone"}
        /\ lastEvent'.outcome \in {"throw", "reject"}
        /\ callback # NULL
        /\ refreshInterval > 0) =>
          /\ lastEvent'.scheduled
          /\ \E x \in armed' \ armed : timer' = x.h]_vars

C6_Witness ==
    /\ lastEvent.op = "tickDone"
    /\ lastEvent.outcome = "reject"
    /\ lastEvent.scheduled
    /\ callback # NULL
    /\ refreshInterval > 0
    /\ timer \in HandlesOf(armed)

C8_StopIdempotent ==
    [][/\ (lastEvent.op = "stop" /\ lastEvent'.op = "stop") =>
            UNCHANGED <<timer, armed, callback, ticking, manual, refreshInterval>>
       /\ (lastEvent.op = "init" /\ lastEvent'.op = "stop") =>
            (timer' = NULL /\ callback' = NULL /\ armed' = {})]_vars

C8_Witness ==
    /\ lastEvent.op = "stop"
    /\ lastEvent.idle
    /\ ticking # {}

\* C9: start(cb2) while a callback is registered and the interval is > 0
\* cancels every timer that was pending and leaves exactly one, new, timer
\* armed with cb2 registered; ticks and triggers invoke the registered
\* callback only.
C9_StartReplaces ==
    [][/\ (lastEvent'.op = "start" /\ callback # NULL /\ refreshInterval > 0) =>
            /\ armed' \cap armed = {}
            /\ Cardinality(armed') = 1
            /\ timer' \in HandlesOf(armed')
            /\ callback' # NULL
       /\ lastEvent'.op \in {"tick", "trigger"} =>
            \A i \in 1..Len(lastEvent'.invoked) : lastEvent'.invoked[i] = callback]_vars

(***************************************************************************)
(* Properties of the history store, checked under HistorySpec; those of    *)
(* the 1000-point limit under HistoryLongRunSpec, that of getHistory()     *)
(* under HistoryFreshSpec.                                                 *)
(***************************************************************************)

\* C10: right after addDataPoint(id, ...) every point of getHistory(id) has a
\* timestamp strictly greater than now - W, with now the clock at the end of
\* the call and W the retention window maxHistoryDays * MsPerDay.
C10_OnlyRecentPoints ==
    histEvent.op = "addDataPoint" =>
        \A i \in 1..Len(GetHistory(histEvent.id)) :
            GetHistory(histEvent.id)[i].timestamp > clock - maxHistoryDays * MsPerDay

C10_Witness ==
    /\ histEvent.op = "addDataPoint"
    /\ histEvent.dropped = 1
    /\ maxHistoryDays = 1
    /\ Len(GetHistory(histEvent.id)) = 2
    /\ GetHistory(histEvent.id)[1].timestamp = clock - maxHistoryDays * MsPerDay + 1

\* C11: every account's series has at most HistoryLimit points.
C11_SeriesWithinLimit ==
    \A id \in DOMAIN data : Len(data[id]) <= HistoryLimit

\* The write that meets the limit: a full series stays full, its oldest point
\* dropped by the cut and by nothing else.
C11_Witness ==
    /\ histEvent.op = "addDataPoint"
    /\ histEvent.dropped = 1
    /\ maxHistoryDays = 2
    /\ Len(GetHistory(histEvent.id)) = HistoryLimit
    /\ GetHistory(histEvent.id)[1].timestamp > clock - MsPerDay

\* s is what is left of t after some of its first elements are removed.
IsSuffix(s, t) ==
    /\ Len(s) <= Len(t)
    /\ s = SubSeq(t, Len(t) - Len(s) + 1, Len(t))

\* C12: addDataPoint(id, r, t) leaves a suffix of the previous series followed
\* by the new point; on a full series whose points are all inside the
\* retention window it leaves the HistoryLimit most recent points in insertion
\* order: the previous series without its first point, then the new point.
C12_PrunesFromHead ==
    [][\A id \in Accounts :
          (histEvent'.op = "addDataPoint" /\ histEvent'.id = id) =>
             \E r \in Amounts, t \in Totals :
                LET pushed == Append(GetHistory(id), Point(clock, r, t))
                IN /\ IsSuffix(GetHistory(id)', pushed)
                   /\ (/\ Len(GetHistory(id)) = HistoryLimit
                       /\ GetHistory(id)[1].timestamp > CutoffTime(clock', maxHistoryDays))
                      => GetHistory(id)' = Tail(pushed)]_vars

\* The state after the call number HistoryLimit + 1: the points written at
\* 1 .. HistoryLimit are left, the point written at 0 is gone.
C12_Witness ==
    /\ histEvent.op = "addDataPoint"
    /\ clock = HistoryLimit + 1
    /\ Len(GetHistory(histEvent.id)) = HistoryLimit
    /\ GetHistory(histEvent.id)[1].timestamp = 1
    /\ GetHistory(histEvent.id)[HistoryLimit].timestamp = HistoryLimit

\* C13: after addDataPoint, clearHistory or clearAll, with the extension
\* context (the durable store) available, the value stored under the history
\* key is the whole in-memory map.
C13_StoredIsMap ==
    (context /\ histEvent.op \in {"addDataPoint", "clearHistory", "clearAll"}) =>
        stored = data

C13_Witness ==
    /\ context
    /\ histEvent.op = "clearHistory"
    /\ histEvent.dropped > 0
    /\ DOMAIN stored # {}
    /\ stored = data

\* C14: clearHistory(id) leaves id without history, and a clearHistory(id)
\* that directly follows a clearHistory(id) changes neither the map nor the
\* stored value.
C14_ClearHistoryIdempotent ==
    [][\A id \in Accounts :
          (histEvent'.op = "clearHistory" /\ histEvent'.id = id) =>
             /\ GetHistory(id)' = <<>>
             /\ id \notin DOMAIN data'
             /\ (histEvent.op = "clearHistory" /\ histEvent.id = id) =>
                   UNCHANGED <<data, stored>>]_vars

\* clearHistory of an account that has no history, next to one that has.
C14_Witness ==
    /\ histEvent.op = "clearHistory"
    /\ histEvent.dropped = 0
    /\ context
    /\ DOMAIN data # {}

\* C15: getHistory(id) returns the series of id, the empty sequence when the
\* map has no entry for id, and changes neither the map nor the stored value.
C15_GetHistoryPure ==
    [][\A id \in Accounts :
          (histEvent'.op = "getHistory" /\ histEvent'.id = id) =>
             /\ UNCHANGED <<data, stored>>
             /\ histEvent'.returned = (IF id \in DOMAIN data THEN data[id] ELSE <<>>)]_vars

\* getHistory of an unknown account while another account has points.
C15_Witness ==
    /\ histEvent.op = "getHistory"
    /\ histEvent.id \notin DOMAIN data
    /\ histEvent.returned = <<>>
    /\ \E id \in DOMAIN data : data[id] # <<>>

(***************************************************************************)
(* Properties of the adapter registry, checked under RegistrySpec.         *)
(***************************************************************************)

\* C16: whatever the registry holds and whatever isConfigured()/isEnabled()
\* answer, getActive() lists exactly the registered adapters that are both
\* configured and enabled, each once: the adapters that getConfigured() and
\* getEnabled() have in common. An adapter that is configured but disabled is
\* listed by getConfigured() and by neither getEnabled() nor getActive().
C16_ActiveIsConfiguredAndEnabled ==
    /\ Range(GetActive) = {a \in Range(adapters) : IsConfigured(a) /\ IsEnabled(a)}
    /\ Range(GetActive) = Range(GetConfigured) \cap Range(GetEnabled)
    /\ Len(GetActive) = Cardinality(Range(GetActive))
    /\ \A a \in Range(adapters) :
          (IsConfigured(a) /\ ~IsEnabled(a)) =>
             /\ a \in Range(GetConfigured)
             /\ a \notin Range(GetEnabled)
             /\ a \notin Range(GetActive)

\* C16 witness: a registry with an active adapter, an adapter that is
\* configured but disabled, and an adapter that is enabled but not configured.
C16_Witness ==
    /\ GetActive # <<>>
    /\ \E a \in Range(adapters) : IsConfigured(a) /\ ~IsEnabled(a)
    /\ \E a \in Range(adapters) : ~IsConfigured(a) /\ IsEnabled(a)

\* A list of adapters is in registration order: an adapter stands before every
\* adapter that was registered after it.
InRegistrationOrder(list) ==
    \A i, j \in 1..Len(list) : i < j => list[i].stamp < list[j].stamp

\* C17: getAll(), getConfigured(), getEnabled() and getActive() list the
\* adapters in the order in which they were registered, after any sequence of
\* register, unregister and clear.
C17_RegistrationOrder ==
    /\ InRegistrationOrder(GetAll)
    /\ InRegistrationOrder(GetConfigured)
    /\ InRegistrationOrder(GetEnabled)
    /\ InRegistrationOrder(GetActive)

(***************************************************************************)
(* Properties of the adapter factory, checked under FactorySpec.           *)
(***************************************************************************)

\* The records createAdaptersFromConfig() makes an adapter of: the platform
\* type is registered and the constructor succeeds.
Constructible(records, types) ==
    SelectSeq(records, LAMBDA a : a.type \in types /\ a.constructs)

C19_FailureIsolated ==
    [][refresh' # refresh =>
          LET first == IF refresh.state = "running" THEN Len(refresh.log) + 1 ELSE 1
              log == refresh'.log
          IN /\ refresh'.state # "aborted"
             /\ refresh'.state = "running" => Len(log) = refresh'.pos - 1
             /\ refresh'.state = "done" => Len(log) = Len(refresh'.snapshot)
             /\ \A i \in first..Len(log) :
                   /\ log[i].id = refresh'.snapshot[i]
                   /\ log[i].found = IF i = first /\ refresh.state = "running"
                                     THEN TRUE
                                     ELSE Has(adapters, log[i].id)
                   /\ log[i].found => log[i].settled = "fulfilled"
                   /\ log[i].result.usage => log[i].delivered = "usage"]_vars

\* C19 witness: a cycle is over in which the fetch of the first account failed
\* and the usage of a later account was fetched and delivered.
C19_Witness ==
    /\ refresh.state = "done"
    /\ Len(refresh.log) >= 2
    /\ refresh.log[1].found /\ refresh.log[1].configured
    /\ refresh.log[1].delivered = "error"
    /\ \E i \in 2..Len(refresh.log) : refresh.log[i].delivered = "usage"

\* C20: every fetchUsage() call settles by resolving. When isConfigured() is
\* false the result is configured=false with an error and no usage, and no
\* network request was made; otherwise the result is configured=true with
\* exactly one of usage and error.
C20_FetchAlwaysResolves ==
    \A i \in 1..Len(refresh.log) :
       LET call == refresh.log[i]
       IN call.found =>
             /\ call.settled = "fulfilled"
             /\ ~call.configured =>
                   /\ call.result = FetchResult(FALSE, FALSE, TRUE)
                   /\ call.calls = 0
             /\ call.configured =>
                   /\ call.result.configured
                   /\ call.result.usage # call.result.error
                   /\ call.calls >= 1

\* C20 witness: one cycle has seen a fetchUsage() of an adapter that is not
\* configured, one that failed after both network requests, and one that
\* returned a usage.
C20_Witness ==
    /\ \E i \in 1..Len(refresh.log) :
          refresh.log[i].found /\ ~refresh.log[i].configured
    /\ \E i \in 1..Len(refresh.log) :
          refresh.log[i].result.configured /\ refresh.log[i].result.error
                                           /\ refresh.log[i].calls = 2
    /\ \E i \in 1..Len(refresh.log) : refresh.log[i].result.usage

\* The fetches of account id that returned a usage in the cycle.
UsagesFetched(id) ==
    {i \in 1..Len(refresh.log) : refresh.log[i].id = id /\ refresh.log[i].result.usage}

\* C21: every fetch of a refresh cycle that returns a usage appends one data
\* point to the history series of its account, and a failed fetch appends
\* none: counted from an empty store, the series of an account holds as many
\* points as the cycle has fetched usages of it.
C21_FetchedUsageRecorded ==
    \A id \in InstanceIds : Len(GetHistory(id)) = Cardinality(UsagesFetched(id))

(***************************************************************************)
(* Properties of the prediction, checked under PredictionSpec.             *)
(***************************************************************************)
\* The series has too little data for a prediction, or its usage does not fall.
NoBasis(points) ==
    \/ Len(points) < 2
    \/ Elapsed(points) < MinElapsed
    \/ Latest(points).remaining >= Earliest(points).remaining

\* The ratio is a finite number that is not negative.
FiniteNonNegative(r) == r.den > 0 /\ r.num >= 0

ExampleSeries ==
    <<[timestamp |-> 0, remaining |-> 100],
      [timestamp |-> TicksPerDay, remaining |-> 80]>>

\* C23: an available prediction has dailyUsageRate * elapsedDays =
\* earliest.remaining - latest.remaining, daysUntilDepletion * dailyUsageRate =
\* latest.remaining and estimatedDepletionDate = now + daysUntilDepletion
\* days; the points (t0, 100) and (t0 + 1d, 80) evaluated at t0 + 1d give the
\* rate 20, 4 days and the date t0 + 5d.
C23_PredictionFormula ==
    (prediction.computed /\ prediction.available) =>
        /\ prediction.dailyUsageRate.num * Elapsed(series)
              = Consumed(series) * TicksPerDay * prediction.dailyUsageRate.den
        /\ prediction.daysUntilDepletion.num * prediction.dailyUsageRate.num
              = Latest(series).remaining * prediction.daysUntilDepletion.den
                    * prediction.dailyUsageRate.den
        /\ prediction.estimatedDepletionDate.num * prediction.daysUntilDepletion.den
              = (instant * prediction.daysUntilDepletion.den
                    + prediction.daysUntilDepletion.num * TicksPerDay)
                * prediction.estimatedDepletionDate.den
        /\ (series = ExampleSeries /\ instant = TicksPerDay) =>
              /\ RatEq(prediction.dailyUsageRate, Ratio(20, 1))
              /\ RatEq(prediction.daysUntilDepletion, Ratio(4, 1))
              /\ RatEq(prediction.estimatedDepletionDate, Ratio(5 * TicksPerDay, 1))

\* The prediction of the example series was computed at t0 + 1d.
C23_Witness ==
    /\ prediction.computed
    /\ prediction.available
    /\ series = ExampleSeries
    /\ instant = TicksPerDay

(***************************************************************************)
(* Further properties of the scheduler, checked under SchedulerSpec.       *)
(***************************************************************************)
\* C24: every timer a step arms has the delay, in milliseconds, of the
\* refreshInterval setting as it is when the step arms it, whether the step
\* is start(), a configuration change or a timer handler rescheduling itself.
C24_DelayIsCurrentInterval ==
    [][\A x \in armed' \ armed : x.delay = refreshInterval' * 1000]_vars

\* A timer handler has rescheduled itself with a two-second delay while a
\* timer armed under the one-second setting is still pending.
C24_Witness ==
    /\ lastEvent.op \in {"tick", "tickDone"}
    /\ lastEvent.scheduled
    /\ refreshInterval = 2
    /\ \E x \in armed : x.h = timer /\ x.delay = 2000
    /\ \E y \in armed : y.delay = 1000

\* A timer handler has called the callback.
TickInvoked == lastEvent.op = "tick" /\ lastEvent.invoked # <<>>

\* The callback called by a timer handler has thrown or its promise rejected.
CycleFailed ==
    /\ lastEvent.op \in {"tick", "tickDone"}
    /\ lastEvent.outcome \in {"throw", "reject"}

\* C25: with a callback registered, a positive interval, no stop(), timers
\* that fire and callbacks that settle, the timer handlers call the callback
\* again and again for ever; and after a cycle that failed, the timer then
\* stored fires later and its handler calls the callback.
C25_InvokedInfinitelyOften ==
    /\ []((callback # NULL /\ refreshInterval > 0) => []<>TickInvoked)
    /\ \A h \in Handles :
          (CycleFailed /\ callback # NULL /\ refreshInterval > 0 /\ timer = h)
              ~> (TickInvoked /\ h \notin HandlesOf(armed))

\* A cycle has failed and the handler has armed the next timer.
C25_Witness ==
    /\ CycleFailed
    /\ callback # NULL
    /\ refreshInterval > 0
    /\ timer \in HandlesOf(armed)

\* C26: a change of the refreshInterval setting while a callback is
\* registered cancels the timer the scheduler holds, keeps the callback, and,
\* the new interval being positive, arms exactly one new timer, with the new
\* interval as its delay, whether or not a timer was pending before; with no
\* callback registered the change arms and cancels nothing.
C26_ConfigChangeRestarts ==
    [][lastEvent'.op = "config" =>
          IF callback # NULL
          THEN /\ callback' = callback
               /\ timer # NULL => timer \notin HandlesOf(armed')
               /\ refreshInterval' > 0 =>
                     \E x \in armed' :
                        /\ armed' \ armed = {x}
                        /\ x.delay = refreshInterval' * 1000
                        /\ timer' = x.h
          ELSE /\ armed' = armed
               /\ callback' = NULL
               /\ timer' = timer]_vars

\* The setting was changed to two seconds with a callback registered, and the
\* one pending timer is the new one.
C26_Witness ==
    /\ lastEvent.op = "config"
    /\ callback # NULL
    /\ refreshInterval = 2
    /\ armed = {[h |-> timer, delay |-> 2000]}

(***************************************************************************)
(* Properties of the refresh cycles the manager starts, checked under      *)
(* ManagerSpec.                                                            *)
(***************************************************************************)
\* C27: at most one execution of refreshAll() is in progress at any time,
\* whether begun by initialize(), by a timer handler or by the refresh command.
C27_OneCycleAtATime ==
    cycles["initial"] + cycles["tick"] + cycles["command"] <= 1

\* The step calls fetchUsage() on an adapter that goes to the network: a fetch
\* is pending after the step that was not pending before it.
FetchStarts ==
    /\ fetching'.phase = "primary"
    /\ fetching.phase # "primary" \/ fetching'.id # fetching.id

\* The accounts the cycle has called fetchUsage() on and got an answer from.
FetchedIds(log) == {log[i].id : i \in {j \in 1..Len(log) : log[j].found}}

\* C28: a refresh cycle calls fetchUsage() only on an adapter that is
\* configured and enabled when it is called, and on no account twice, whatever
\* is changed in the configuration or the registry while the cycle awaits an
\* earlier fetch (checked under RefreshSpec).
C28_FetchesOnlyActive ==
    [][/\ FetchStarts =>
            /\ settings'[fetching'.id].configured
            /\ settings'[fetching'.id].enabled
            /\ fetching'.id \notin FetchedIds(refresh'.log)
       /\ \A i \in 1..Len(refresh'.log) :
            (i > Len(refresh.log) /\ refresh'.log[i].found)
               => refresh'.log[i].configured]_vars

(***************************************************************************)
(* Further properties of the history store, checked under HistoryFreshSpec.*)
(***************************************************************************)
Last(seq) == seq[Len(seq)]

\* C29: in every series of the store the timestamps never decrease from one
\* point to the next, whatever addDataPoint, clearHistory and clearAll calls
\* were made and however the clock advanced between them.
C29_TimestampsNonDecreasing ==
    \A id \in DOMAIN data :
        \A i \in 1..Len(data[id]) : \A j \in i..Len(data[id]) :
            data[id][i].timestamp <= data[id][j].timestamp

\* A series holds two points stamped at different times.
C29_Witness ==
    \E id \in DOMAIN data :
        /\ Len(data[id]) >= 2
        /\ data[id][1].timestamp < Last(data[id]).timestamp

\* C30 as stated: after addDataPoint(id, r, t) the series of id is not empty
\* and ends with the new point, stamped with the time of the call, under
\* every retention window.
C30_NewPointIsLast ==
    [][histEvent'.op = "addDataPoint" =>
          /\ histEvent'.id \in DOMAIN data'
          /\ data'[histEvent'.id] # <<>>
          /\ Last(data'[histEvent'.id]).timestamp = clock]_vars

\* C30 as amended: after addDataPoint(id, r, t) under a retention window of
\* one day or more the series of id is not empty and ends with the new point,
\* stamped with the time of the call, what stood before it being points of
\* the old series; under a window of 0 days the call leaves the series empty.
C30_NewPointIsLastUnlessZeroDays ==
    [][histEvent'.op = "addDataPoint" =>
          /\ histEvent'.id \in DOMAIN data'
          /\ IF maxHistoryDays >= 1
             THEN /\ data'[histEvent'.id] # <<>>
                  /\ Last(data'[histEvent'.id]).timestamp = clock
                  /\ Last(data'[histEvent'.id]).remaining \in Amounts
                  /\ Last(data'[histEvent'.id]).total \in Totals
                  /\ IsSuffix(SubSeq(data'[histEvent'.id], 1,
                                     Len(data'[histEvent'.id]) - 1),
                              GetHistory(histEvent'.id))
             ELSE data'[histEvent'.id] = <<>>]_vars

\* A point was added to a series that held one already, under a window of one
\* day or more, and both are there.
C30_Witness ==
    /\ histEvent.op = "addDataPoint"
    /\ maxHistoryDays >= 1
    /\ Len(GetHistory(histEvent.id)) >= 2
    /\ Last(GetHistory(histEvent.id)).timestamp > 0

(***************************************************************************)
(* Properties of the history store over its life, checked under StoreSpec. *)
(***************************************************************************)
\* C31: the series addDataPoint leaves is the old series with the new point,
\* pruned with the retention window the setting holds at the time of the
\* call, also when the setting was changed after the store was constructed.
C31_RetentionReadAtCall ==
    [][(histEvent'.op = "addDataPoint" /\ UNCHANGED storeEnvVars) =>
          \E r \in Amounts, t \in Totals :
             data'[histEvent'.id] =
                Pruned(GetHistory(histEvent'.id), Point(clock, r, t),
                       CutoffTime(clock', retentionSetting))]_vars

\* The durable store cannot be used: no extension context, or globalState throws.
StoreFails == ~context \/ storeThrows

\* The step is a call of the store named op (and no change of its environment).
StoreCall(op) == histEvent'.op = op /\ UNCHANGED storeEnvVars

\* C32: with the durable store unavailable or throwing, the constructor and
\* every call of the store return; a store constructed then has an empty map,
\* so getHistory is empty for every account; and a mutating call made then
\* changes the map as it would otherwise and leaves the stored value alone.
C32_StoreFailuresContained ==
    /\ histEvent.completion = "returned"
    /\ (histEvent.op = "init" /\ StoreFails) =>
          \A id \in Accounts : GetHistory(id) = <<>>
    /\ [][/\ histEvent'.completion = "returned"
          /\ (StoreCall("construct") /\ StoreFails) =>
                \A id \in Accounts : GetHistory(id)' = <<>>
          /\ (StoreCall("addDataPoint") /\ StoreFails) =>
                /\ stored' = stored
                /\ \E r \in Amounts, t \in Totals :
                      data' = MapSet(data, histEvent'.id,
                                     Pruned(GetHistory(histEvent'.id), Point(clock, r, t),
                                            CutoffTime(clock', maxHistoryDays)))
          /\ (StoreCall("clearHistory") /\ StoreFails) =>
                (stored' = stored /\ data' = MapDelete(data, histEvent'.id))
          /\ ((StoreCall("clearAll") \/ StoreCall("dispose")) /\ StoreFails) =>
                (stored' = stored /\ data' = <<>>)]_vars

\* A point was added while globalState was throwing: the map has it, the
\* stored value has not.
C32_Witness ==
    /\ histEvent.op = "addDataPoint"
    /\ context
    /\ storeThrows
    /\ GetHistory(histEvent.id) # <<>>
    /\ histEvent.id \notin DOMAIN stored

\* The timestamps of a series never decrease from one point to the next.
Ordered(seq) == \A i \in 1..(Len(seq) - 1) : seq[i].timestamp <= seq[i + 1].timestamp

\* C33: addDataPoint is atomic with respect to the other history operations.
\* While a call is in execution no other caller is inside addDataPoint, and
\* the call that completes stores the series as it is at that moment with
\* its own point pushed and the old points pruned: no point appended by
\* another caller is lost, none is stored twice, the other accounts keep
\* their series, and every series stays ordered by timestamp.
C33_AppendsSerialized ==
    [][\A c \in Callers :
          (appending[c].pc = "read" /\ appending'[c].pc = "idle") =>
             LET call == appending[c]
             IN /\ Calling = {c}
                /\ data' = MapSet(data, call.id,
                                  Pruned(GetHistory(call.id), call.point,
                                         CutoffTime(clock', maxHistoryDays)))
                /\ \A id \in Accounts : Ordered(GetHistory(id)')]_vars

\* A call has completed on a series another call had appended to.
C33_Witness ==
    /\ histEvent.op = "addDataPoint"
    /\ Len(GetHistory(histEvent.id)) >= 2
    /\ Calling = {}

\* The instance ids of the adapters of a registry or of the records of a list.
IdsOf(seq) == {seq[i].instanceId : i \in 1..Len(seq)}

\* C34: when registerAdaptersFromConfig() completes, the registry holds
\* exactly the adapters built from the current account list, one per account
\* id: its ids are the ids of the records an adapter is built of, each id is
\* there once, and the adapter under an id is the one built last for that id
\* in this call. Nothing registered before the call is left.
C34_RegistryIsCurrentConfig ==
    [][(created'.registered /\ created'.call # created.call) =>
          LET kept == Constructible(accounts, platformTypes)
              ids == {kept[i].id : i \in 1..Len(kept)}
          IN /\ IdsOf(adapters') = ids
             /\ Len(adapters') = Cardinality(ids)
             /\ \A i \in 1..Len(adapters') :
                   LET n == adapters'[i].stamp
                   IN /\ n \in 1..Len(kept)
                      /\ kept[n].id = adapters'[i].instanceId
                      /\ \A m \in (n + 1)..Len(kept) : kept[m].id # kept[n].id]_vars

\* C34 witness: the registration has run over two records of which only the
\* second could be built, and the registry holds the adapter of that one.
C34_Witness ==
    /\ created.registered
    /\ Len(accounts) = MaxAccounts
    /\ ~accounts[1].constructs
    /\ accounts[1].id # accounts[Len(accounts)].id
    /\ IdsOf(adapters) = {accounts[Len(accounts)].id}

\* The calls of the store that change the history.
MutatingCalls == {"addDataPoint", "clearHistory", "clearAll"}

\* C35: persist/load round trip. A store constructed after the last
\* mutating call of an earlier instance returns from getHistory, for every
\* account, the series the earlier instance returned after that call.
C35_RoundTrip ==
    [][(histEvent.op \in MutatingCalls /\ StoreCall("construct")) =>
          \A id \in Accounts : GetHistory(id)' = GetHistory(id)]_vars

\* C36: addDataPoint(a, ...) and clearHistory(a) leave the series of every
\* other account as it was in memory: nothing is appended to it, nothing is
\* pruned from it by age or by count, and it is not removed.
C36_OtherAccountsUntouched ==
    [][histEvent'.op \in {"addDataPoint", "clearHistory"} =>
          \A b \in Accounts \ {histEvent'.id} :
             /\ GetHistory(b)' = GetHistory(b)
             /\ (b \in DOMAIN data') = (b \in DOMAIN data)]_vars

\* C36 witness: a point was added to one account while another account holds
\* a point that is older than the retention window.
C36_Witness ==
    /\ histEvent.op = "addDataPoint"
    /\ \E b \in Accounts \ {histEvent.id} :
          /\ GetHistory(b) # <<>>
          /\ ~Survives(GetHistory(b)[1], CutoffTime(clock, maxHistoryDays))

\* C37, as stated: after dispose() getHistory is empty for every account and
\* the durable store holds an empty map.
C37_DisposeEmptiesDurableStore ==
    [][StoreCall("dispose") =>
          /\ \A id \in Accounts : GetHistory(id)' = <<>>
          /\ stored' = <<>>]_vars

\* C37, amended: dispose() has the effect of clearAll(). Afterwards
\* getHistory is empty for every account; the durable store holds an empty
\* map when the save succeeds, and what it held before when the extension
\* context is missing or globalState throws; a store constructed over an
\* emptied durable store has none of the history recorded before dispose().
C37_DisposeClearsAll ==
    [][/\ StoreCall("dispose") =>
             /\ \A id \in Accounts : GetHistory(id)' = <<>>
             /\ data' = <<>>
             /\ stored' = IF StoreFails THEN stored ELSE <<>>
       /\ (histEvent.op = "dispose" /\ stored = <<>> /\ StoreCall("construct")) =>
             \A id \in Accounts : GetHistory(id)' = <<>>]_vars

\* C37 witness: dispose() has just emptied a durable store that held the
\* history of an account.
C37_Witness ==
    /\ histEvent.op = "dispose"
    /\ histEvent.dropped > 0
    /\ context /\ ~storeThrows
    /\ stored = <<>>
    /\ data = <<>>

\* No two entries of the registry have the same instance id.
OnePerId(seq) ==
    \A i, j \in 1..Len(seq) : seq[i].instanceId = seq[j].instanceId => i = j

\* C38: the registry holds at most one adapter per instance id, from its
\* construction on. register() of an adapter whose id is present replaces the
\* stored adapter and leaves count() as it is, and adds one to count()
\* otherwise; get(id) then returns that adapter, and goes on returning it
\* while other ids are registered and unregistered; get(id) returns nothing
\* after unregister(id) and after clear(); unregister() of an unknown id
\* changes nothing.
C38_OneAdapterPerId ==
    /\ OnePerId(adapters)
    /\ [][/\ OnePerId(adapters')
          /\ \A id \in InstanceIds :
                /\ Register(id) =>
                      /\ Get(adapters', id) = {Adapter(id, registrations')}
                      /\ Count(adapters') =
                            IF Has(adapters, id) THEN Count(adapters)
                            ELSE Count(adapters) + 1
                      /\ \A other \in InstanceIds \ {id} :
                            Get(adapters', other) = Get(adapters, other)
                /\ Unregister(id) =>
                      /\ Get(adapters', id) = {}
                      /\ ~Has(adapters', id)
                      /\ ~Has(adapters, id) => adapters' = adapters
                      /\ \A other \in InstanceIds \ {id} :
                            Get(adapters', other) = Get(adapters, other)
                /\ Clear => (Get(adapters', id) = {} /\ Count(adapters') = 0)]_vars

\* C38 witness: the first entry of a registry of two was registered last,
\* so it replaced an adapter registered before the second entry.
C38_Witness ==
    /\ Count(adapters) = 2
    /\ registrations = 3
    /\ adapters[1].stamp = registrations

====
